---- MODULE Spec2Model ----
(***************************************************************************)
(* Stash: a multi-tenant ephemeral key-value store.  The model covers the  *)
(* HTTP handlers of app/main.py, the Redis wrapper of                      *)
(* app/services/redis_service.py, the tier policy and the API-key          *)
(* dependency of app/core/auth.py and the request schemas of               *)
(* app/models/schemas.py.  Every `await` on the Redis client is one        *)
(* atomic step of a request; requests interleave between those steps.      *)
(* Time is counted in milliseconds, as the Redis server keeps it.          *)
(***************************************************************************)
EXTENDS Integers, Sequences, FiniteSets, TLC

VARIABLES
    now,        \* the wall clock, in milliseconds
    db,         \* the Redis keyspace: key -> [value, expireat]
    inflight,   \* requests suspended at an await, between two Redis commands
    issued,     \* number of requests received so far
    response,   \* the response most recently sent
    users,      \* the users table: id -> tier
    api_keys,   \* the api_keys table: key_hash -> user_id
    client,     \* RedisService._client: "none", "redis" or "fakeredis"
    reachable   \* whether the server at settings.redis_url answers

\* the credential directory and the connection, which no request handler writes
env == <<users, api_keys, client, reachable>>

vars == <<now, db, inflight, issued, response, env>>

----------------------------------------------------------------------------
(* Bounds of the exploration *)

MaxRequests == 3    \* requests received in one behaviour
MaxInFlight == 2    \* requests suspended at the same time
MaxElapses == 2     \* clock advances in one behaviour
ElapseMs == 600     \* length of one clock advance, in milliseconds

----------------------------------------------------------------------------
(* Optional values: Python's None and a present value *)

None == <<>>
Some(x) == <<x>>
IsNone(o) == o = <<>>
Get(o) == o[1]

----------------------------------------------------------------------------
(* Tier policy: app/core/auth.py *)

UserTier == {"free", "pro", "enterprise"}

max_payload_bytes(tier) ==
    CASE tier = "free" -> 1048576
      [] tier = "pro" -> 52428800
      [] tier = "enterprise" -> 524288000

default_ttl_seconds(tier) ==
    CASE tier = "free" -> 3600
      [] tier = "pro" -> 86400
      [] tier = "enterprise" -> 86400

max_ttl_seconds(tier) ==
    CASE tier = "free" -> 3600
      [] tier = "pro" -> 86400
      [] tier = "enterprise" -> 604800

----------------------------------------------------------------------------
(* The credential directory: app/services/user_db.py *)

\* seed_demo_users: the rows it leaves in the users table, id -> tier
demo_users ==
    [u \in {"user_free_001", "user_pro_001", "user_ent_001"} |->
        CASE u = "user_free_001" -> "free"
          [] u = "user_pro_001" -> "pro"
          [] u = "user_ent_001" -> "enterprise"]

UserIds == DOMAIN demo_users

\* the key stored as it is
hash_key_plain(api_key) == api_key

\* hash_key: a one-way digest, kept symbolic (injective on the keys in use)
hash_key(api_key) == "sha256(" \o api_key \o ")"

\* the plaintext keys create_api_key handed out, one per demo user
IssuedKey(u) == "sk_" \o u

\* the rows seed_demo_users leaves in the api_keys table, key_hash -> user_id
api_keys_table ==
    [h \in {hash_key(IssuedKey(u)) : u \in UserIds} |->
        CHOOSE u \in UserIds : hash_key(IssuedKey(u)) = h]

\* a key that matches no row resolves to the free demo user
get_user_by_api_key_fallback(api_key) ==
    LET key_hash == hash_key(api_key) IN
    IF key_hash \notin DOMAIN api_keys
    THEN Some([id |-> "user_free_001", tier |-> "free"])
    ELSE Some([id |-> api_keys[key_hash],
               tier |-> users[api_keys[key_hash]]])

\* get_user_by_api_key: None, or the row {id, tier}
get_user_by_api_key(api_key) ==
    LET key_hash == hash_key(api_key) IN
    IF key_hash \notin DOMAIN api_keys
    THEN None
    ELSE Some([id |-> api_keys[key_hash],
               tier |-> users[api_keys[key_hash]]])

----------------------------------------------------------------------------
(* Authentication: app/core/auth.py *)

\* the limits a User derives from its tier: the properties the class defines
User_limits(tier) ==
    [max_payload_bytes |-> max_payload_bytes(tier),
     default_ttl_seconds |-> default_ttl_seconds(tier),
     max_ttl_seconds |-> max_ttl_seconds(tier)]

\* the header APIKeyHeader reads the key from
api_key_header == "X-API_KEY"

\* Security(api_key_header) with auto_error=False: the header's value, or None
HeaderValue(headers) ==
    IF api_key_header \in DOMAIN headers THEN Some(headers[api_key_header]) ELSE None

\* get_current_user: [status 200, user] or the 401 it raises
get_current_user(headers) ==
    LET api_key == HeaderValue(headers) IN
    IF IsNone(api_key)
    THEN [status |-> 401, detail |-> "Missing API key. Include 'X-API-Key' in header."]
    ELSE LET user_data == get_user_by_api_key(Get(api_key)) IN
         IF IsNone(user_data)
         THEN [status |-> 401, detail |-> "Invalid API key"]
         ELSE [status |-> 200,
               user |-> [id |-> Get(user_data).id, tier |-> Get(user_data).tier]]

----------------------------------------------------------------------------
(* Request schemas: app/models/schemas.py *)

\* StashRequest.ttl: default=3600 when the body omits it
StashRequest_ttl(ttl) == IF IsNone(ttl) THEN 3600 ELSE Get(ttl)

\* StashRequest: ttl has ge=1, le=86400 (and ttl_must_be_reasonable: v >= 1)
StashRequest_valid(ttl) ==
    /\ StashRequest_ttl(ttl) >= 1
    /\ StashRequest_ttl(ttl) <= 86400

\* UpdateRequest without validate_request: only the bounds of extra_time
UpdateRequest_valid_fields(data, extra_time) ==
    IsNone(extra_time) \/ (Get(extra_time) >= 1 /\ Get(extra_time) <= 86400)

\* UpdateRequest: extra_time has ge=1, le=86400; validate_request wants one field
UpdateRequest_valid(data, extra_time) ==
    /\ IsNone(extra_time) \/ (Get(extra_time) >= 1 /\ Get(extra_time) <= 86400)
    /\ ~(IsNone(data) /\ IsNone(extra_time))

----------------------------------------------------------------------------
(* The Redis server, as the client calls of redis_service.py use it.       *)
(* A key holds a string value and an absolute expiry instant; a key whose  *)
(* instant has passed is absent.                                           *)

\* GET key: the value, or None
redis_get(key) == IF key \in DOMAIN db THEN Some(db[key].value) ELSE None

\* the remaining time of an expiry instant in seconds, rounded to the nearest
\* second as the server's TTL does ((ms + 500) / 1000)
redis_ttl_seconds(expireat) == (expireat - now + 500) \div 1000

\* the expiry instant of a key that has none (written by a plain SET)
NoExpiry == -1

\* TTL key: -2 when the key is absent, -1 when it has no expiry, else the
\* remaining time in seconds
redis_ttl(key) ==
    IF key \notin DOMAIN db THEN -2
    ELSE IF db[key].expireat = NoExpiry THEN -1
    ELSE redis_ttl_seconds(db[key].expireat)

\* SETEX key seconds value: one atomic write of value and expiry; the server
\* refuses seconds <= 0 ("invalid expire time") and writes nothing
redis_setex_ok(seconds) == seconds > 0

\* a plain SET in place of SETEX: the value with no expiry
redis_set_persistent(key, seconds, value) ==
    [k \in DOMAIN db \cup {key} |->
        IF k = key THEN [value |-> value, expireat |-> NoExpiry]
        ELSE db[k]]

redis_setex(key, seconds, value) ==
    [k \in DOMAIN db \cup {key} |->
        IF k = key THEN [value |-> value, expireat |-> now + seconds * 1000]
        ELSE db[k]]

\* an EXPIRE that changes nothing
redis_expire_ignored(key, seconds) == db

\* EXPIRE key seconds: a new expiry for a key that exists, else nothing
redis_expire(key, seconds) ==
    IF key \notin DOMAIN db THEN db
    ELSE IF seconds <= 0 THEN [k \in DOMAIN db \ {key} |-> db[k]]
    ELSE [db EXCEPT ![key].expireat = now + seconds * 1000]

\* DEL key: the keyspace without the key
redis_delete(key) == [k \in DOMAIN db \ {key} |-> db[k]]

\* DEL's reply: the number of keys removed
redis_delete_count(key) == IF key \in DOMAIN db THEN 1 ELSE 0

----------------------------------------------------------------------------
(* RedisService: app/services/redis_service.py *)

\* a key that leaves the user out
make_key_shared(user_id, memory_id) == "user:" \o memory_id

_make_key(user_id, memory_id) == "user:" \o user_id \o ":" \o memory_id

\* result >= 0 in place of result > 0
delete_result_always(key) == redis_delete_count(key) >= 0

\* delete: result > 0, where result is DEL's reply
delete_result(key) == redis_delete_count(key) > 0

\* stash: the JSON document written for a new record
stash_value(data) == [data |-> data, created_at |-> now]

\* the whole stored document returned in place of its "data"
recall_result_document(value, ttl) ==
    IF ttl < 0 THEN None
    ELSE Some([data |-> Get(value),
               ttl_remaining |-> ttl,
               created_at |-> Get(value).created_at])

\* recall, after GET and TTL: None, or {data, ttl_remaining, created_at}
recall_result(value, ttl) ==
    IF ttl < 0 THEN None
    ELSE Some([data |-> Get(value).data,
               ttl_remaining |-> ttl,
               created_at |-> Get(value).created_at])

\* the new data merged into the old (parsed["data"].update(data))
update_parsed_merged(value, data) ==
    IF IsNone(data) THEN Get(value)
    ELSE ("data" :> (Get(data) @@ Get(value).data)) @@ Get(value)

\* update: parsed["data"] = data when data is given
update_parsed(value, data) ==
    IF IsNone(data) THEN Get(value) ELSE ("data" :> Get(data)) @@ Get(value)

\* the TTL reset to extra_time in place of extended by it
update_new_ttl_reset(current_ttl, extra_time) ==
    IF IsNone(extra_time) THEN current_ttl ELSE Get(extra_time)

\* update: new_ttl = current_ttl, plus extra_time when it is given
update_new_ttl(current_ttl, extra_time) ==
    IF IsNone(extra_time) THEN current_ttl ELSE current_ttl + Get(extra_time)

\* update: the JSON document written back, with updated_at
update_new_value(value, data) == ("updated_at" :> now) @@ update_parsed(value, data)

----------------------------------------------------------------------------
(* What clients send *)

\* "data" of POST /stash: a JSON object
Data == {[version |-> 1, note |-> "keep"]}

\* "data" of PATCH /update when given: another JSON object
NewData == {[version |-> 2]}

\* "ttl" of POST /stash: below the schema's minimum, or in range
TtlInputs == {Some(0), Some(1), Some(86400)}

\* "extra_time" of PATCH /update: omitted or given
ExtraTimeInputs == {None, Some(1)}

\* "data" of PATCH /update: omitted or given
DataInputs == {None} \cup {Some(d) : d \in NewData}

\* values secrets.token_urlsafe(6) may return
TokenIds == {"m1", "m2"}

\* the {memory_id} path parameter of recall, update and delete
PathIds == TokenIds

\* request headers: none, the key under the header the tests send, and a key
\* (issued or not) under the header the dependency reads
RequestHeaders ==
    {<<>>, ("X-API-KEY" :> IssuedKey("user_free_001"))}
    \cup {("X-API_KEY" :> k) :
            k \in {IssuedKey(u) : u \in UserIds} \cup {"sk_totally_bogus_key_12345"}}

----------------------------------------------------------------------------
(* Handlers: app/main.py *)

Min(a, b) == IF a <= b THEN a ELSE b

\* the requested TTL, not clamped
stash_ttl_unclamped(request_ttl, user) == request_ttl

\* stash: ttl = min(request.ttl, user.max_ttl_seconds)
stash_ttl(request_ttl, user) == Min(request_ttl, max_ttl_seconds(user.tier))

\* the 401 of get_current_user, as the response of endpoint op
Unauthorized(op, auth) ==
    [rid |-> issued + 1, op |-> op, status |-> 401, detail |-> auth.detail]

\* the 422 of request validation
Unprocessable(op, user) ==
    [rid |-> issued + 1, op |-> op, user |-> user.id, status |-> 422]

\* HTTPException(404) of recall (its detail ends with a full stop)
recall_not_found(rid, user, memory_id) ==
    [rid |-> rid, op |-> "recall", user |-> user.id, memory_id |-> memory_id,
     status |-> 404,
     detail |-> "Memory '" \o memory_id \o "' not found or expired."]

\* a 404 whose detail tells when another user holds the memory_id
not_found_leaky(rid, op, user, memory_id) ==
    [rid |-> rid, op |-> op, user |-> user.id, memory_id |-> memory_id,
     status |-> 404,
     detail |-> IF \E a \in DOMAIN users \ {user.id} :
                        ("user:" \o a \o ":" \o memory_id) \in DOMAIN db
                THEN "Memory '" \o memory_id \o "' belongs to another user"
                ELSE "Memory '" \o memory_id \o "' not found or expired"]

\* HTTPException(404) of update and delete_stash
not_found(rid, op, user, memory_id) ==
    [rid |-> rid, op |-> op, user |-> user.id, memory_id |-> memory_id,
     status |-> 404,
     detail |-> "Memory '" \o memory_id \o "' not found or expired"]

\* POST /stash: authentication, validation, SETEX and the response, with no
\* await between the SETEX and the response
Stash(headers, data, ttl, memory_id) ==
    /\ issued < MaxRequests
    /\ issued' = issued + 1
    /\ UNCHANGED <<now, inflight, env>>
    /\ LET auth == get_current_user(headers) IN
       IF auth.status # 200
       THEN /\ response' = Unauthorized("stash", auth)
            /\ UNCHANGED db
       ELSE IF ~StashRequest_valid(ttl)
       THEN /\ response' = Unprocessable("stash", auth.user)
            /\ UNCHANGED db
       ELSE LET user == auth.user
                request_ttl == StashRequest_ttl(ttl)
                clamped == stash_ttl(request_ttl, user)
            IN /\ db' = redis_setex(_make_key(user.id, memory_id), clamped,
                                    stash_value(data))
               /\ response' =
                    [rid |-> issued + 1, op |-> "stash", user |-> user.id,
                     status |-> 200, memory_id |-> memory_id, ttl |-> clamped,
                     expires_at |-> now + request_ttl * 1000]

\* GET /recall/{memory_id}, up to the first await's reply: the GET.
\* The request in flight also carries "expireat", a history field that no code
\* reads: the expiry instant the key had when its value was read.
RecallGet(headers, memory_id) ==
    /\ issued < MaxRequests
    /\ Cardinality(inflight) < MaxInFlight
    /\ issued' = issued + 1
    /\ UNCHANGED <<now, db, env>>
    /\ LET auth == get_current_user(headers) IN
       IF auth.status # 200
       THEN /\ response' = Unauthorized("recall", auth)
            /\ UNCHANGED inflight
       ELSE LET user == auth.user
                value == redis_get(_make_key(user.id, memory_id))
            IN IF IsNone(value)
               THEN /\ response' = recall_not_found(issued + 1, user, memory_id)
                    /\ UNCHANGED inflight
               ELSE /\ inflight' = inflight \cup
                        {[rid |-> issued + 1, op |-> "recall", pc |-> "ttl",
                          user |-> user, memory_id |-> memory_id, value |-> value,
                          expireat |->
                              db[_make_key(user.id, memory_id)].expireat]}
                    /\ UNCHANGED response

\* recall, second await: the TTL, then the response
RecallTtl(r) ==
    /\ r.op = "recall" /\ r.pc = "ttl"
    /\ inflight' = inflight \ {r}
    /\ UNCHANGED <<now, db, issued, env>>
    /\ LET ttl == redis_ttl(_make_key(r.user.id, r.memory_id))
           result == recall_result(r.value, ttl)
       IN response' =
            IF IsNone(result)
            THEN recall_not_found(r.rid, r.user, r.memory_id)
            ELSE [rid |-> r.rid, op |-> "recall", user |-> r.user.id,
                  status |-> 200, memory_id |-> r.memory_id,
                  data |-> Get(result).data,
                  ttl_remaining |-> Get(result).ttl_remaining]

\* the 200 response reporting the TTL the service computed, not the clamped one
update_response_unclamped(r, result, new_ttl) ==
    [rid |-> r.rid, op |-> "update", user |-> r.user.id, status |-> 200,
     memory_id |-> r.memory_id, data |-> result.data,
     ttl_remaining |-> result.ttl_remaining,
     expires_at |-> now + result.ttl_remaining * 1000]

\* update: the 200 response; ttl_remaining is the clamped TTL, expires_at is
\* computed from result["ttl_remaining"]
update_response(r, result, new_ttl) ==
    [rid |-> r.rid, op |-> "update", user |-> r.user.id, status |-> 200,
     memory_id |-> r.memory_id, data |-> result.data,
     ttl_remaining |-> new_ttl,
     expires_at |-> now + result.ttl_remaining * 1000]

\* PATCH /update/{memory_id}, up to the first await's reply: the GET.
\* As in recall, the request in flight carries the history field "expireat".
UpdateGet(headers, memory_id, data, extra_time) ==
    /\ issued < MaxRequests
    /\ Cardinality(inflight) < MaxInFlight
    /\ issued' = issued + 1
    /\ UNCHANGED <<now, db, env>>
    /\ LET auth == get_current_user(headers) IN
       IF auth.status # 200
       THEN /\ response' = Unauthorized("update", auth)
            /\ UNCHANGED inflight
       ELSE IF ~UpdateRequest_valid(data, extra_time)
       THEN /\ response' = Unprocessable("update", auth.user)
            /\ UNCHANGED inflight
       ELSE LET user == auth.user
                value == redis_get(_make_key(user.id, memory_id))
            IN IF IsNone(value)
               THEN /\ response' = not_found(issued + 1, "update", user, memory_id)
                    /\ UNCHANGED inflight
               ELSE /\ inflight' = inflight \cup
                        {[rid |-> issued + 1, op |-> "update", pc |-> "ttl",
                          user |-> user, memory_id |-> memory_id,
                          data |-> data, extra_time |-> extra_time,
                          value |-> value,
                          expireat |->
                              db[_make_key(user.id, memory_id)].expireat]}
                    /\ UNCHANGED response

\* update, second await: the TTL
UpdateTtl(r) ==
    /\ r.op = "update" /\ r.pc = "ttl"
    /\ UNCHANGED <<now, db, issued, env>>
    /\ LET current_ttl == redis_ttl(_make_key(r.user.id, r.memory_id)) IN
       IF current_ttl < 0
       THEN /\ response' = not_found(r.rid, "update", r.user, r.memory_id)
            /\ inflight' = inflight \ {r}
       ELSE /\ inflight' = (inflight \ {r}) \cup
                {[rid |-> r.rid, op |-> "update", pc |-> "setex",
                  user |-> r.user, memory_id |-> r.memory_id,
                  data |-> r.data, extra_time |-> r.extra_time,
                  value |-> r.value, expireat |-> r.expireat,
                  current_ttl |-> current_ttl]}
            /\ UNCHANGED response

\* update, third await: the SETEX; then the handler's comparison with the
\* tier's maximum, which either answers or goes on to the EXPIRE
UpdateSetex(r) ==
    /\ r.op = "update" /\ r.pc = "setex"
    /\ UNCHANGED <<now, issued, env>>
    /\ LET key == _make_key(r.user.id, r.memory_id)
           new_ttl == update_new_ttl(r.current_ttl, r.extra_time)
           new_value == update_new_value(r.value, r.data)
           result == [data |-> new_value.data, ttl_remaining |-> new_ttl]
       IN IF ~redis_setex_ok(new_ttl)
          THEN \* redis.ResponseError leaves the handler: 500
               /\ UNCHANGED db
               /\ inflight' = inflight \ {r}
               /\ response' = [rid |-> r.rid, op |-> "update", user |-> r.user.id,
                               memory_id |-> r.memory_id, status |-> 500]
          ELSE /\ db' = redis_setex(key, new_ttl, new_value)
               /\ IF new_ttl > max_ttl_seconds(r.user.tier)
                  THEN /\ inflight' = (inflight \ {r}) \cup
                            {[rid |-> r.rid, op |-> "update", pc |-> "expire",
                              user |-> r.user, memory_id |-> r.memory_id,
                              result |-> result]}
                       /\ UNCHANGED response
                  ELSE /\ inflight' = inflight \ {r}
                       /\ response' = update_response(r, result, new_ttl)

\* update, fourth await: the EXPIRE that clamps the TTL; then the response
UpdateExpire(r) ==
    /\ r.op = "update" /\ r.pc = "expire"
    /\ UNCHANGED <<now, issued, env>>
    /\ LET new_ttl == max_ttl_seconds(r.user.tier) IN
       /\ db' = redis_expire(_make_key(r.user.id, r.memory_id), new_ttl)
       /\ inflight' = inflight \ {r}
       /\ response' = update_response(r, r.result, new_ttl)

\* DELETE /stash/{memory_id}: one await, the DEL
DeleteStash(headers, memory_id) ==
    /\ issued < MaxRequests
    /\ issued' = issued + 1
    /\ UNCHANGED <<now, inflight, env>>
    /\ LET auth == get_current_user(headers) IN
       IF auth.status # 200
       THEN /\ response' = Unauthorized("delete", auth)
            /\ UNCHANGED db
       ELSE LET user == auth.user
                key == _make_key(user.id, memory_id)
                deleted == delete_result(key)
            IN /\ db' = redis_delete(key)
               /\ response' =
                    IF ~deleted
                    THEN not_found(issued + 1, "delete", user, memory_id)
                    ELSE [rid |-> issued + 1, op |-> "delete", user |-> user.id,
                          memory_id |-> memory_id, status |-> 204]

----------------------------------------------------------------------------
(* Time *)

\* the clock advances; the server drops every key whose expiry has passed
Elapse ==
    /\ now < MaxElapses * ElapseMs
    /\ now' = now + ElapseMs
    /\ db' = [k \in {j \in DOMAIN db : \/ db[j].expireat = NoExpiry
                                       \/ db[j].expireat > now + ElapseMs}
                |-> db[k]]
    /\ UNCHANGED <<inflight, issued, response, env>>

----------------------------------------------------------------------------
(* The system *)

\* after startup in local mode: the demo users seeded, the client connected
\* to a Redis server with an empty keyspace, no request received
Init ==
    /\ now = 0
    /\ db = <<>>
    /\ inflight = {}
    /\ issued = 0
    /\ response = [rid |-> 0, op |-> "none", status |-> 0]
    /\ users = demo_users
    /\ api_keys = api_keys_table
    /\ client = "redis"
    /\ reachable = TRUE

Next ==
    \/ \E h \in RequestHeaders, d \in Data, t \in TtlInputs, m \in TokenIds :
            Stash(h, d, t, m)
    \/ \E h \in RequestHeaders, m \in PathIds : RecallGet(h, m)
    \/ \E r \in inflight : RecallTtl(r)
    \/ \E h \in RequestHeaders, m \in PathIds, d \in DataInputs, e \in ExtraTimeInputs :
            UpdateGet(h, m, d, e)
    \/ \E r \in inflight : UpdateTtl(r)
    \/ \E r \in inflight : UpdateSetex(r)
    \/ \E r \in inflight : UpdateExpire(r)
    \/ \E h \in RequestHeaders, m \in PathIds : DeleteStash(h, m)
    \/ Elapse

\* the routes, for the requests the middleware passes on to them
Spec == Init /\ [][Next]_vars

----------------------------------------------------------------------------
(* The create endpoint behind the middleware: app/core/middleware.py *)

\* PayloadSizeMiddleware.DEFAULT_LIMIT
DEFAULT_LIMIT == 1048576

\* sizes of request bodies, in bytes: small, at the 1 MiB limit, one byte
\* over it, and one byte over the pro and the enterprise tier's limits
BodySizes == {64, 1048576, 1048577, 52428801, 524288001}

\* a request body: its size and the Content-Length header that announces it,
\* None when the body is sent chunked and the header is absent
Bodies ==
    UNION {{[bytes |-> n, content_length |-> None],
            [bytes |-> n, content_length |-> Some(n)]} : n \in BodySizes}

\* "ttl" of POST /stash: omitted, or one of TtlInputs
OptionalTtlInputs == {None} \cup TtlInputs

\* dispatch: the 413 JSONResponse
payload_too_large(op) ==
    [rid |-> issued + 1, op |-> op, status |-> 413,
     error |-> "Payload Too Large", limit_bytes |-> DEFAULT_LIMIT]

\* dispatch: the test on the method and on the Content-Length header
dispatch_rejects(method, content_length) ==
    /\ method \in {"POST", "PUT", "PATCH"}
    /\ ~IsNone(content_length)
    /\ Get(content_length) > DEFAULT_LIMIT

\* PayloadSizeMiddleware.dispatch: answer 413, or go on to the route handler
dispatch(method, content_length, op, call_next) ==
    IF dispatch_rejects(method, content_length)
    THEN /\ issued < MaxRequests
         /\ issued' = issued + 1
         /\ response' = payload_too_large(op)
         /\ UNCHANGED <<now, db, inflight, env>>
    ELSE call_next

\* POST /stash as the application serves it: the middleware, then the route
HttpStash(headers, data, ttl, memory_id, body) ==
    dispatch("POST", body.content_length, "stash",
             Stash(headers, data, ttl, memory_id))

\* clients that only create: POST /stash through the middleware, and the clock
NextCreate ==
    \/ \E h \in RequestHeaders, d \in Data, t \in OptionalTtlInputs,
          m \in TokenIds, b \in Bodies :
            HttpStash(h, d, t, m, b)
    \/ Elapse

SpecCreate == Init /\ [][NextCreate]_vars

----------------------------------------------------------------------------
(* Startup and the connection to the store: RedisService.connect, health_check *)

\* a command sent through the client fails: the client is the real one and the
\* server does not answer (the in-memory substitute always answers)
StoreDown == client = "redis" /\ ~reachable

\* redis.ConnectionError leaves a route handler: 500
connection_error(rid, op) == [rid |-> rid, op |-> op, status |-> 500]

\* connect: from_url and ping; on redis.ConnectionError the client becomes a
\* FakeRedis, an empty in-memory keyspace
Connect ==
    /\ client = "none"
    /\ client' = IF reachable THEN "redis" ELSE "fakeredis"
    /\ UNCHANGED <<now, db, inflight, issued, response, users, api_keys, reachable>>

\* the Redis server stops answering
RedisFails ==
    /\ reachable
    /\ reachable' = FALSE
    /\ UNCHANGED <<now, db, inflight, issued, response, users, api_keys, client>>

\* GET /health: "status" is "healthy" whatever the checks find; checks.redis
\* is the outcome of a ping through the client (the user_db check is left out)
HealthCheck ==
    /\ client # "none"
    /\ issued < MaxRequests
    /\ issued' = issued + 1
    /\ response' = [rid |-> issued + 1, op |-> "health", status |-> 200,
                    body_status |-> "healthy",
                    redis |-> IF StoreDown THEN "disconnected" ELSE "connected"]
    /\ UNCHANGED <<now, db, inflight, env>>

\* POST /stash once the application has started
ServedStash(headers, data, ttl, memory_id) ==
    /\ client # "none"
    /\ IF /\ StoreDown
          /\ get_current_user(headers).status = 200
          /\ StashRequest_valid(ttl)
       THEN /\ issued < MaxRequests
            /\ issued' = issued + 1
            /\ response' = connection_error(issued + 1, "stash")
            /\ UNCHANGED <<now, db, inflight, env>>
       ELSE Stash(headers, data, ttl, memory_id)

\* GET /recall/{memory_id} once the application has started: the GET
ServedRecallGet(headers, memory_id) ==
    /\ client # "none"
    /\ IF StoreDown /\ get_current_user(headers).status = 200
       THEN /\ issued < MaxRequests
            /\ issued' = issued + 1
            /\ response' = connection_error(issued + 1, "recall")
            /\ UNCHANGED <<now, db, inflight, env>>
       ELSE RecallGet(headers, memory_id)

\* recall's TTL call
ServedRecallTtl(r) ==
    IF StoreDown
    THEN /\ r.op = "recall" /\ r.pc = "ttl"
         /\ inflight' = inflight \ {r}
         /\ response' = connection_error(r.rid, "recall")
         /\ UNCHANGED <<now, db, issued, env>>
    ELSE RecallTtl(r)

\* before lifespan's startup: no client yet; the configured server answers or
\* does not; the directory holds the demo users of an earlier run
InitStartup ==
    /\ now = 0
    /\ db = <<>>
    /\ inflight = {}
    /\ issued = 0
    /\ response = [rid |-> 0, op |-> "none", status |-> 0]
    /\ users = demo_users
    /\ api_keys = api_keys_table
    /\ client = "none"
    /\ reachable \in BOOLEAN

NextStartup ==
    \/ Connect
    \/ RedisFails
    \/ HealthCheck
    \/ \E h \in RequestHeaders, d \in Data, t \in TtlInputs, m \in TokenIds :
            ServedStash(h, d, t, m)
    \/ \E h \in RequestHeaders, m \in PathIds : ServedRecallGet(h, m)
    \/ \E r \in inflight : ServedRecallTtl(r)

\* the application from its startup on, creating, recalling and being probed
SpecStartup == InitStartup /\ [][NextStartup]_vars

----------------------------------------------------------------------------
(* Managing the credential directory: UserDB.create_user, create_api_key *)

\* user ids handed to create_user, which takes any string
NewUserIds == {"acme", "acme:m1"}

\* tiers handed to create_user
NewUserTiers == {"free", "pro"}

\* values secrets.token_urlsafe(24) may return
KeyTokens == {"k1", "k2"}

\* the strings a client may present as a key: those create_api_key can
\* return, and one it never returns
KeyStrings == {"sk_" \o k : k \in KeyTokens} \cup {"sk_totally_bogus_key_12345"}

\* create_user: INSERT INTO users; False when the id is taken
CreateUser(user_id, tier) ==
    /\ IF user_id \in DOMAIN users
       THEN /\ UNCHANGED users
            /\ response' = [rid |-> issued, op |-> "create_user", status |-> 0,
                            user |-> user_id, result |-> FALSE]
       ELSE /\ users' = (user_id :> tier) @@ users
            /\ response' = [rid |-> issued, op |-> "create_user", status |-> 0,
                            user |-> user_id, result |-> TRUE]
    /\ UNCHANGED <<now, db, inflight, issued, api_keys, client, reachable>>

\* create_api_key: None for an unknown user; else a key "sk_" + token whose
\* hash is inserted, and the plaintext key returned.  key_hash is the primary
\* key of api_keys: inserting one that is there raises IntegrityError.
CreateApiKey(user_id, token) ==
    /\ LET api_key == "sk_" \o token
           key_hash == hash_key(api_key)
       IN IF user_id \notin DOMAIN users
          THEN /\ UNCHANGED api_keys
               /\ response' = [rid |-> issued, op |-> "create_api_key",
                               status |-> 0, user |-> user_id, api_key |-> None]
          ELSE IF key_hash \in DOMAIN api_keys
          THEN /\ UNCHANGED api_keys
               /\ response' = [rid |-> issued, op |-> "create_api_key",
                               status |-> 0, user |-> user_id, api_key |-> None,
                               raised |-> "IntegrityError"]
          ELSE /\ api_keys' = (key_hash :> user_id) @@ api_keys
               /\ response' = [rid |-> issued, op |-> "create_api_key",
                               status |-> 0, user |-> user_id,
                               api_key |-> Some(api_key)]
    /\ UNCHANGED <<now, db, inflight, issued, users, client, reachable>>

\* request headers carrying a key under the header the dependency reads
KeyHeaders == {("X-API_KEY" :> k) : k \in KeyStrings}

\* {memory_id} path values: a generated id, and one with a colon in it
ColonPathIds == {"m2", "m1:m2"}

\* an empty directory, the client connected to an empty Redis
InitDirectory ==
    /\ now = 0
    /\ db = <<>>
    /\ inflight = {}
    /\ issued = 0
    /\ response = [rid |-> 0, op |-> "none", status |-> 0]
    /\ users = <<>>
    /\ api_keys = <<>>
    /\ client = "redis"
    /\ reachable = TRUE

NextDirectory ==
    \/ \E u \in NewUserIds, tier \in NewUserTiers : CreateUser(u, tier)
    \/ \E u \in NewUserIds, k \in KeyTokens : CreateApiKey(u, k)
    \/ \E h \in KeyHeaders, d \in Data, m \in TokenIds : Stash(h, d, Some(1), m)
    \/ \E h \in KeyHeaders, m \in ColonPathIds : RecallGet(h, m)
    \/ \E r \in inflight : RecallTtl(r)

\* users and keys being created while the keys are used to create and recall
SpecDirectory == InitDirectory /\ [][NextDirectory]_vars

----------------------------------------------------------------------------
(* Properties *)

\* the principal a request's headers resolve to, when they authenticate
Authenticated(h) == get_current_user(h).status = 200
Principal(h) == get_current_user(h).user

\* every other user's record under memory_id m is as it was
OthersUntouched(b, m) ==
    \A a \in UserIds \ {b} :
        LET k == _make_key(a, m) IN
        /\ (k \in DOMAIN db) = (k \in DOMAIN db')
        /\ k \in DOMAIN db => db'[k] = db[k]

\* a step of principal b's recall, update or delete of m that starts the request
StartsOn(h, m) ==
    \/ RecallGet(h, m)
    \/ DeleteStash(h, m)
    \/ \E d \in DataInputs, e \in ExtraTimeInputs :
            UpdateRequest_valid(d, e) /\ UpdateGet(h, m, d, e)

\* C1: namespace isolation.  Every step of a recall, update or delete that
\* principal B makes on memory_id m leaves the record any other principal A
\* holds under m exactly as it was; and when another principal holds m while
\* B's own namespace does not, B's request is answered 404.
C1_NamespaceIsolation ==
    [][ /\ issued' # issued =>
            \A h \in RequestHeaders, m \in PathIds :
              (Authenticated(h) /\ StartsOn(h, m)) =>
                  /\ OthersUntouched(Principal(h).id, m)
                  /\ ( /\ _make_key(Principal(h).id, m) \notin DOMAIN db
                       /\ \E a \in UserIds \ {Principal(h).id} :
                              _make_key(a, m) \in DOMAIN db )
                     => /\ response'.rid = issued'
                        /\ response'.status = 404
                        /\ response'.user = Principal(h).id
        /\ issued' = issued =>
            \A r \in inflight :
              (RecallTtl(r) \/ UpdateTtl(r) \/ UpdateSetex(r) \/ UpdateExpire(r))
                  => OthersUntouched(r.user.id, r.memory_id)
      ]_vars

\* C1 witness: B was just answered 404 for an m that another principal holds
C1_Witness ==
    /\ response.status = 404
    /\ response.op \in {"recall", "update", "delete"}
    /\ \E a \in UserIds \ {response.user} :
            _make_key(a, response.memory_id) \in DOMAIN db

\* C2: a POST /stash of an authenticated user with an accepted ttl t stores
\* the record with an expiry of exactly min(t, max TTL of the user's tier)
\* seconds: 3600 for the free tier asking for 86400, 86400 for pro and
\* enterprise asking for 86400.
C2_StoredTtlIsClamped ==
    [][ (issued' # issued /\ response'.op = "stash") =>
          \A h \in RequestHeaders, d \in Data, t \in TtlInputs, m \in TokenIds :
            (Authenticated(h) /\ StashRequest_valid(t) /\ Stash(h, d, t, m)) =>
                LET k == _make_key(Principal(h).id, m)
                    tier == Principal(h).tier
                    limit == CASE tier = "free" -> 3600
                               [] tier = "pro" -> 86400
                               [] tier = "enterprise" -> 604800
                IN /\ k \in DOMAIN db'
                   /\ db'[k].expireat = now + Min(Get(t), limit) * 1000
                   /\ db'[k].expireat <= now + limit * 1000
                   /\ response'.ttl = Min(Get(t), limit)
      ]_vars

\* C2 witness: the free user asked for 86400 seconds and the key holds 3600
C2_Witness ==
    /\ response.op = "stash" /\ response.status = 200
    /\ response.user = "user_free_001"
    /\ response.expires_at = now + 86400 * 1000
    /\ LET k == _make_key(response.user, response.memory_id) IN
       /\ k \in DOMAIN db
       /\ db[k].expireat = now + 3600 * 1000

\* C3: every record a recall can observe has 0 < ttl_remaining <= the
\* maximum TTL of its owner's tier, in every reachable state
C3_TtlWithinTierLimit ==
    \A u \in UserIds, m \in PathIds :
        LET k == _make_key(u, m) IN
        k \in DOMAIN db =>
            /\ 0 < redis_ttl(k)
            /\ redis_ttl(k) <= max_ttl_seconds(demo_users[u])

\* C4: GONE is terminal.  A key that is absent from the store (never
\* created, deleted or expired) comes to exist only by a create; no step of
\* a recall, update or delete makes it exist again.
C4_GoneIsTerminal ==
    [][ \A u \in UserIds, m \in PathIds :
            LET k == _make_key(u, m) IN
            (k \notin DOMAIN db /\ k \in DOMAIN db') =>
                \E h \in RequestHeaders, d \in Data, t \in TtlInputs :
                    Stash(h, d, t, m)
      ]_vars

\* C5: updates are atomic with respect to concurrent updates and deletes of
\* the same key.  While no time has passed since startup (so that no record
\* has aged or expired), every SETEX an update is granted finds the key
\* still there (no delete has removed it since the update read it), and when
\* the record the key holds was last written by an update, the SETEX writes
\* what the same request applied in one step to that record would write:
\* the value and the TTL computed from the current record are those computed
\* from what the update read earlier.
C5_UpdateIsAtomic ==
    [][ (issued' = issued /\ now = 0) =>
          \A r \in inflight :
            ( /\ UpdateSetex(r)
              /\ redis_setex_ok(update_new_ttl(r.current_ttl, r.extra_time)) )
            => LET key == _make_key(r.user.id, r.memory_id) IN
               /\ key \in DOMAIN db
               /\ "updated_at" \in DOMAIN db[key].value =>
                     /\ update_new_value(Some(db[key].value), r.data)
                            = update_new_value(r.value, r.data)
                     /\ update_new_ttl(redis_ttl(key), r.extra_time)
                            = update_new_ttl(r.current_ttl, r.extra_time)
      ]_vars

\* C6: an update's data and expiry become visible together.  The data and
\* the TTL a recall returns belong to one stored record: when the key no
\* longer holds the returned data at the moment the TTL is read (an update
\* has replaced it meanwhile), the TTL returned is still the remaining TTL of
\* the record the returned data was read from, not that of the update's write.
C6_DataAndExpiryTogether ==
    [][ issued' = issued =>
          \A r \in inflight :
            (RecallTtl(r) /\ response'.status = 200) =>
               LET key == _make_key(r.user.id, r.memory_id) IN
               response'.data # db[key].value.data =>
                   response'.ttl_remaining = redis_ttl_seconds(r.expireat)
      ]_vars

\* C7: recall answers NotFound for a key that is absent, and every record
\* it returns carries a ttl_remaining that is strictly positive
C7_RecallTtlPositive ==
    [][ /\ issued' # issued =>
            \A h \in RequestHeaders, m \in PathIds :
              ( /\ Authenticated(h) /\ RecallGet(h, m)
                /\ _make_key(Principal(h).id, m) \notin DOMAIN db )
              => response'.status = 404 /\ response'.rid = issued'
        /\ issued' = issued =>
            \A r \in inflight :
              RecallTtl(r) =>
                  /\ response'.status \in {200, 404}
                  /\ _make_key(r.user.id, r.memory_id) \notin DOMAIN db
                        => response'.status = 404
                  /\ response'.status = 200 => response'.ttl_remaining > 0
      ]_vars

\* the recall r is the request that follows a create of the same record with
\* nothing in between: the create's response is the last one sent, r is the
\* only request in flight and the next one received, and the clock has not
\* moved since the record was written
ImmediateAfterCreate(r) ==
    /\ r.op = "recall"
    /\ response.op = "stash" /\ response.status = 200
    /\ response.user = r.user.id /\ response.memory_id = r.memory_id
    /\ r.rid = response.rid + 1
    /\ inflight = {r}
    /\ Get(r.value).created_at = now

\* C8: round trip.  A create stores the data it was given, and a recall of
\* the same record by the same user right after the create returns that
\* data with 0 < ttl_remaining <= the TTL of the create.
C8_RoundTrip ==
    [][ /\ (issued' # issued /\ response'.op = "stash") =>
            \A h \in RequestHeaders, d \in Data, t \in TtlInputs, m \in TokenIds :
              (Authenticated(h) /\ StashRequest_valid(t) /\ Stash(h, d, t, m)) =>
                  /\ response'.status = 200 /\ response'.memory_id = m
                  /\ db'[_make_key(Principal(h).id, m)].value.data = d
        /\ issued' = issued =>
            \A r \in inflight :
              (ImmediateAfterCreate(r) /\ RecallTtl(r)) =>
                  LET k == _make_key(r.user.id, r.memory_id) IN
                  /\ response'.status = 200
                  /\ k \in DOMAIN db
                  /\ response'.data = db[k].value.data
                  /\ response'.data \in Data
                  /\ 0 < response'.ttl_remaining
                  /\ response'.ttl_remaining <= response.ttl
                  /\ response'.ttl_remaining * 1000 <= response.expires_at - now
      ]_vars

\* C8 witness: a recall has just returned the record created at this instant
C8_Witness ==
    /\ response.op = "recall" /\ response.status = 200
    /\ response.rid = issued /\ inflight = {}
    /\ LET k == _make_key(response.user, response.memory_id) IN
       /\ k \in DOMAIN db
       /\ db[k].value.created_at = now
       /\ "updated_at" \notin DOMAIN db[k].value
       /\ response.data = db[k].value.data
       /\ response.ttl_remaining > 0

\* C9: delete answers 204 exactly when the key held a record and 404
\* otherwise, never anything else; it leaves the key absent, so that a
\* delete of the same key right after it reports that nothing existed.
C9_DeleteReportsExistence ==
    [][ (issued' # issued /\ response'.op = "delete") =>
          \A h \in RequestHeaders, m \in PathIds :
            (Authenticated(h) /\ DeleteStash(h, m)) =>
                LET k == _make_key(Principal(h).id, m) IN
                /\ response'.status = IF k \in DOMAIN db THEN 204 ELSE 404
                /\ k \notin DOMAIN db'
                /\ ~(delete_result(k))'
      ]_vars

\* C9 witness: a delete has just removed a record that existed
C9_Witness ==
    /\ response.op = "delete" /\ response.status = 204
    /\ response.rid = issued
    /\ _make_key(response.user, response.memory_id) \notin DOMAIN db

\* C10: an update that is given new_data and writes the record stores
\* exactly new_data as its data, with no field of the previous data kept,
\* and reports exactly new_data.
C10_DataReplacedWholesale ==
    [][ \A r \in inflight :
            ( /\ UpdateSetex(r)
              /\ ~IsNone(r.data)
              /\ redis_setex_ok(update_new_ttl(r.current_ttl, r.extra_time)) )
            => LET k == _make_key(r.user.id, r.memory_id) IN
               /\ k \in DOMAIN db'
               /\ db'[k].value.data = Get(r.data)
               /\ response' # response => response'.data = Get(r.data)
      ]_vars

\* C10 witness: an update replaced data that had a field the new data lacks
C10_Witness ==
    /\ response.op = "update" /\ response.status = 200
    /\ response.data \in NewData
    /\ LET k == _make_key(response.user, response.memory_id) IN
       /\ k \in DOMAIN db
       /\ db[k].value.data = response.data
       /\ "note" \notin DOMAIN db[k].value.data

\* C11: additive extension.  When an update that carries extra_time e has
\* read the remaining TTL r of a live record, its SETEX leaves the key with a
\* remaining TTL of r + e, which is more than e whenever r > 0.
C11_ExtensionIsAdditive ==
    [][ issued' = issued =>
          \A r \in inflight :
            ( /\ UpdateSetex(r)
              /\ ~IsNone(r.extra_time)
              /\ redis_setex_ok(update_new_ttl(r.current_ttl, r.extra_time)) )
            => LET key == _make_key(r.user.id, r.memory_id) IN
               /\ key \in DOMAIN db'
               /\ db'[key].expireat = now + (r.current_ttl + Get(r.extra_time)) * 1000
               /\ (redis_ttl(key))' = r.current_ttl + Get(r.extra_time)
               /\ r.current_ttl > 0 => (redis_ttl(key))' > Get(r.extra_time)
      ]_vars

\* C11 witness: an update has just extended a record of TTL 1 by 1 second and
\* the key holds a TTL of 2
C11_Witness ==
    /\ response.op = "update" /\ response.status = 200
    /\ response.ttl_remaining = 2
    /\ LET k == _make_key(response.user, response.memory_id) IN
       /\ k \in DOMAIN db
       /\ redis_ttl(k) = 2

\* the maximum TTL of the tier policy table, in seconds
TableMaxTtl(tier) ==
    CASE tier = "free" -> 3600
      [] tier = "pro" -> 86400
      [] tier = "enterprise" -> 604800

\* the update r is about to complete, it is the request that follows the
\* create of the same record with nothing in between, and the clock has not
\* moved since the create: the create's response is the last one sent and r
\* is the only request in flight
ImmediateUpdateAfterCreate(r) ==
    /\ r.op = "update"
    /\ response.op = "stash" /\ response.status = 200
    /\ response.user = r.user.id /\ response.memory_id = r.memory_id
    /\ r.rid = response.rid + 1
    /\ inflight = {r}
    /\ LET key == _make_key(r.user.id, r.memory_id) IN
       /\ key \in DOMAIN db
       /\ db[key].value.created_at = now

\* update r completes with this step
UpdateCompletes(r) ==
    /\ UpdateSetex(r) \/ UpdateExpire(r)
    /\ r \notin inflight' /\ inflight' = inflight \ {r}
    /\ response'.rid = r.rid /\ response'.status = 200

\* a completed update's reported and stored TTL are within the tier's maximum
CompletedWithinLimit(r) ==
    LET key == _make_key(r.user.id, r.memory_id) IN
    /\ response'.ttl_remaining <= TableMaxTtl(r.user.tier)
    /\ key \in DOMAIN db' => (redis_ttl(key))' <= TableMaxTtl(r.user.tier)

\* C12 as stated: when an update completes, the reported ttl_remaining and
\* the stored TTL are at most the tier's maximum, and for a record created
\* with TTL t and extended at once the reported ttl_remaining is strictly
\* greater than t.
C12_ExtendedTtlStrictlyGreater ==
    [][ issued' = issued =>
          \A r \in inflight :
            UpdateCompletes(r) =>
              /\ CompletedWithinLimit(r)
              /\ ( /\ ImmediateUpdateAfterCreate(r)
                   /\ r.pc = "setex" => ~IsNone(r.extra_time) )
                 => response'.ttl_remaining > response.ttl
      ]_vars

\* C12 amended: when an update completes, the reported ttl_remaining and the
\* stored TTL are at most the tier's maximum, and for a record created with
\* TTL t and extended at once the reported ttl_remaining is at least t, and
\* strictly greater than t when t is below the tier's maximum.
C12_ExtendedTtlClamped ==
    [][ issued' = issued =>
          \A r \in inflight :
            UpdateCompletes(r) =>
              /\ CompletedWithinLimit(r)
              /\ ( /\ ImmediateUpdateAfterCreate(r)
                   /\ r.pc = "setex" => ~IsNone(r.extra_time) )
                 => /\ response'.ttl_remaining >= response.ttl
                    /\ response.ttl < TableMaxTtl(r.user.tier)
                          => response'.ttl_remaining > response.ttl
      ]_vars

\* C12 witness: the free user's record, created at the tier's maximum of
\* 3600 seconds, has just been extended by 1 second: the service computed
\* 3601, the response reports 3600 and the key holds 3600
C12_Witness ==
    /\ response.op = "update" /\ response.status = 200
    /\ response.user = "user_free_001"
    /\ response.expires_at = now + 3601 * 1000
    /\ response.ttl_remaining = 3600
    /\ LET k == _make_key(response.user, response.memory_id) IN
       /\ k \in DOMAIN db
       /\ db[k].value.created_at = now
       /\ redis_ttl(k) = 3600

\* C13: the response of a create reports the clamped TTL, min(ttl asked,
\* maximum of the tier), and its expires_at is the time of the request plus
\* that clamped TTL, which is the expiry the store holds for the key.
C13_ResponseReportsStoredExpiry ==
    [][ (issued' # issued /\ response'.op = "stash") =>
          \A h \in RequestHeaders, d \in Data, t \in TtlInputs, m \in TokenIds :
            (Authenticated(h) /\ StashRequest_valid(t) /\ Stash(h, d, t, m)) =>
                LET k == _make_key(Principal(h).id, m)
                    clamped == Min(StashRequest_ttl(t),
                                   TableMaxTtl(Principal(h).tier))
                IN /\ response'.status = 200
                   /\ response'.ttl = clamped
                   /\ response'.expires_at = now + clamped * 1000
                   /\ response'.expires_at = db'[k].expireat
      ]_vars

\* C14: for every tier, a create whose payload is larger than the tier's
\* max_payload_bytes is rejected and nothing is stored, and a create whose
\* payload is at most the tier's max_payload_bytes is not rejected for its
\* size: it is answered 200 and the record is stored.
C14_TierPayloadLimit ==
    [][ issued' # issued =>
          \A h \in RequestHeaders, d \in Data, t \in OptionalTtlInputs,
             m \in TokenIds, b \in Bodies :
            ( /\ Authenticated(h) /\ StashRequest_valid(t)
              /\ HttpStash(h, d, t, m, b) )
            => LET limit == max_payload_bytes(Principal(h).tier)
                   k == _make_key(Principal(h).id, m)
               IN /\ b.bytes > limit =>
                        /\ response'.status \notin {200}
                        /\ db' = db
                  /\ b.bytes <= limit =>
                        /\ response'.status = 200
                        /\ k \in DOMAIN db'
      ]_vars

\* C15: a create that omits ttl is stored with, and answered with, the
\* default TTL of the user's tier: 3600 for a free or pro user, 86400 for an
\* enterprise user.
C15_DefaultTtlPerTier ==
    [][ issued' # issued =>
          \A h \in RequestHeaders, d \in Data, m \in TokenIds, b \in Bodies :
            ( /\ Authenticated(h)
              /\ HttpStash(h, d, None, m, b)
              /\ response'.status = 200 )
            => LET tier == Principal(h).tier
                   default == CASE tier = "free" -> 3600
                                [] tier = "pro" -> 3600
                                [] tier = "enterprise" -> 86400
               IN /\ response'.ttl = default
                  /\ db'[_make_key(Principal(h).id, m)].expireat
                        = now + default * 1000
      ]_vars

\* C20: a request whose body is larger than 1 MiB (1,048,576 bytes) is
\* answered 413 "Payload Too Large" with limit_bytes, whatever its
\* credential, and nothing is stored; a request whose body is at most 1 MiB
\* is not answered 413.
C20_FlatCeilingBeforeAuth ==
    [][ issued' # issued =>
          \A h \in RequestHeaders, d \in Data, t \in OptionalTtlInputs,
             m \in TokenIds, b \in Bodies :
            HttpStash(h, d, t, m, b) =>
               /\ b.bytes > 1048576 =>
                     /\ response'.status = 413
                     /\ response'.error = "Payload Too Large"
                     /\ response'.limit_bytes = 1048576
                     /\ db' = db
               /\ b.bytes <= 1048576 => response'.status # 413
      ]_vars

\* the tier policy table: payload, default TTL, maximum TTL, records, rate
TierTable(tier) ==
    CASE tier = "free" ->
            [max_payload_bytes |-> 1048576, default_ttl_seconds |-> 3600,
             max_ttl_seconds |-> 3600, max_records |-> 100,
             rate_limit_per_minute |-> 60]
      [] tier = "pro" ->
            [max_payload_bytes |-> 52428800, default_ttl_seconds |-> 86400,
             max_ttl_seconds |-> 86400, max_records |-> 1000,
             rate_limit_per_minute |-> 300]
      [] tier = "enterprise" ->
            [max_payload_bytes |-> 524288000, default_ttl_seconds |-> 86400,
             max_ttl_seconds |-> 604800, max_records |-> 10000,
             rate_limit_per_minute |-> 1000]

\* C16: the tier policy gives, for each tier, exactly the five limits of
\* the table: payload bytes, default TTL, maximum TTL, records and requests
\* per minute.  Stated of the tier every signed-in request resolves to: the
\* limits derived for the user of each response are the table's row.
C16_TierPolicyTable ==
    (response.status = 200) =>
        LET tier == demo_users[response.user] IN
        /\ tier \in UserTier
        /\ DOMAIN User_limits(tier) = DOMAIN TierTable(tier)
        /\ User_limits(tier) = TierTable(tier)

\* the request carries no API key under either spelling of the header
NoCredential(h) == "X-API-KEY" \notin DOMAIN h /\ "X-API_KEY" \notin DOMAIN h

\* the request carries an API key that was never issued
UnmatchedCredential(h) ==
    \E n \in {"X-API-KEY", "X-API_KEY"} :
        n \in DOMAIN h /\ h[n] \notin {IssuedKey(u) : u \in UserIds}

\* a step that receives a request with headers h for memory_id m at one of
\* the four record endpoints, whatever its body
ReceivedAt(h, m) ==
    \/ \E d \in Data, t \in TtlInputs : Stash(h, d, t, m)
    \/ RecallGet(h, m)
    \/ \E d \in DataInputs, e \in ExtraTimeInputs : UpdateGet(h, m, d, e)
    \/ DeleteStash(h, m)

C18_HeaderXApiKey ==
    [][ issued' # issued =>
          \A h \in RequestHeaders, m \in PathIds, u \in UserIds :
            ( /\ "X-API-KEY" \in DOMAIN h
              /\ h["X-API-KEY"] = IssuedKey(u)
              /\ ReceivedAt(h, m) )
            => /\ ~(response'.rid = issued' /\ response'.status = 401)
               /\ (\E d \in Data, t \in TtlInputs :
                        StashRequest_valid(t) /\ Stash(h, d, t, m))
                    => /\ response'.status = 200
                       /\ response'.user = u
                       /\ _make_key(u, m) \in DOMAIN db'
      ]_vars

\* C19: an update of a signed-in user that carries neither data nor
\* extra_time is answered 422 at once; the keyspace is unchanged and the
\* request issues no store operation (it is never in flight).
C19_EmptyUpdateRejected ==
    [][ issued' # issued =>
          \A h \in RequestHeaders, m \in PathIds, u \in UserIds :
            ( /\ "X-API_KEY" \in DOMAIN h
              /\ h["X-API_KEY"] = IssuedKey(u)
              /\ UpdateGet(h, m, None, None) )
            => /\ response'.rid = issued'
               /\ response'.op = "update"
               /\ response'.status = 422
               /\ response'.user = u
               /\ db' = db
               /\ inflight' = inflight
      ]_vars

\* C19 witness: an update was just answered 422 while its user holds a record
C19_Witness ==
    /\ response.op = "update" /\ response.status = 422
    /\ \E m \in PathIds : _make_key(response.user, m) \in DOMAIN db

\* the one NotFound response of operation op for caller u and memory_id m
NotFoundResponse(rid, op, u, m) ==
    [rid |-> rid, op |-> op, user |-> u, memory_id |-> m, status |-> 404,
     detail |-> "Memory '" \o m \o "' not found or expired"
                    \o (IF op = "recall" THEN "." ELSE "")]

\* C21: NotFound is uniform.  A recall, update or delete that finds no record
\* under the caller's own key is answered with the one NotFound response of
\* that operation, caller and memory_id, whatever made the key absent (never
\* created, expired, deleted) and whatever other users hold under the same
\* memory_id: the response is a function of the request alone.
C21_NotFoundUniform ==
    [][ /\ issued' # issued =>
            \A h \in RequestHeaders, m \in PathIds :
              ( /\ Authenticated(h)
                /\ _make_key(Principal(h).id, m) \notin DOMAIN db
                /\ StartsOn(h, m) )
              => /\ response'.op \in {"recall", "update", "delete"}
                 /\ response' =
                      NotFoundResponse(issued', response'.op, Principal(h).id, m)
        /\ issued' = issued =>
            \A r \in inflight :
              ( /\ RecallTtl(r) \/ UpdateTtl(r)
                /\ _make_key(r.user.id, r.memory_id) \notin DOMAIN db )
              => response' = NotFoundResponse(r.rid, r.op, r.user.id, r.memory_id)
      ]_vars

\* C21 witness: an update or delete was answered NotFound, word for word, for
\* a memory_id under which another user holds a live record
C21_Witness ==
    /\ response.status = 404
    /\ response.op \in {"update", "delete"}
    /\ response = NotFoundResponse(response.rid, response.op, response.user,
                                   response.memory_id)
    /\ \E a \in UserIds \ {response.user} :
            _make_key(a, response.memory_id) \in DOMAIN db

\* the record request r read has run out and nothing has written its key since
ExpiredSinceRead(r) ==
    /\ r.pc \in {"ttl", "setex"}
    /\ r.expireat <= now
    /\ _make_key(r.user.id, r.memory_id) \notin DOMAIN db

C23_NoSilentSubstitute ==
    [][ ( /\ ~reachable
          /\ issued' # issued \/ response' # response
          /\ response'.status \notin {401, 422} )
        => IF response'.op = "health"
           THEN response'.redis = "disconnected"
           ELSE response'.status >= 500
      ]_vars

\* C24: every key in the store has an expiry.  In every reachable state each
\* key present carries an expiry instant, and one that lies ahead; since a
\* create is one step (a single SETEX), there is no state between the write
\* of a value and the attachment of its TTL.
C24_EveryKeyHasExpiry ==
    \A k \in DOMAIN db :
        /\ db[k].expireat # NoExpiry
        /\ db[k].expireat > now
        /\ redis_ttl(k) >= 0

\* C24 witness: a key written by a create and rewritten by an update that
\* has answered 200, read while it is live
C24_Witness ==
    /\ response.op = "update" /\ response.status = 200
    /\ LET k == _make_key(response.user, response.memory_id) IN
       /\ k \in DOMAIN db
       /\ "updated_at" \in DOMAIN db[k].value
       /\ redis_ttl(k) >= 0

\* C25: the credential directory.  No row of the directory is keyed by a
\* plaintext key; what a string resolves to changes only when create_api_key
\* returns that very string, from None to the id and tier of the user the key
\* was created for; so every key create_api_key(u) returned resolves to u's
\* id and tier from then on, and every string it never returned to None.
C25_DirectoryRoundTrip ==
    /\ \A k \in KeyStrings : get_user_by_api_key(k) = None
    /\ [][ /\ \A k \in KeyStrings : k \notin DOMAIN api_keys'
           /\ \A k \in KeyStrings :
                (get_user_by_api_key(k))' # get_user_by_api_key(k) =>
                    /\ get_user_by_api_key(k) = None
                    /\ response'.op = "create_api_key"
                    /\ response'.api_key = Some(k)
           /\ ( /\ response' # response
                /\ response'.op = "create_api_key"
                /\ response'.api_key # None )
              => \E k \in KeyStrings :
                    /\ response'.api_key = Some(k)
                    /\ (get_user_by_api_key(k))' =
                         Some([id |-> response'.user,
                               tier |-> users[response'.user]])
         ]_vars

\* C25 witness: create_api_key has just returned a key, which resolves to its
\* user, while a string never returned resolves to None
C25_Witness ==
    /\ response.op = "create_api_key"
    /\ response.api_key # None
    /\ get_user_by_api_key(Get(response.api_key)) =
            Some([id |-> response.user, tier |-> users[response.user]])
    /\ get_user_by_api_key("sk_totally_bogus_key_12345") = None
    /\ \E k \in KeyTokens : get_user_by_api_key("sk_" \o k) = None

\* C27: key composition is injective.  For the users the directory holds and
\* the memory ids a request may carry (generated ids and client-supplied
\* path values), two different (user_id, memory_id) pairs never compose to
\* the same store key.
C27_KeyInjective ==
    \A u1 \in DOMAIN users, u2 \in DOMAIN users :
        \A m1 \in TokenIds \cup ColonPathIds, m2 \in TokenIds \cup ColonPathIds :
            <<u1, m1>> # <<u2, m2>> => _make_key(u1, m1) # _make_key(u2, m2)

\* C26: no lost update between a data-only and a TTL-only update of one live
\* record.  While no time has passed since startup: when a data-only update
\* writes after a TTL-only update has extended the record it read (same data,
\* later expiry), the record keeps that extension and takes the new data;
\* when a TTL-only update writes after a data-only update has replaced the
\* data it read (same expiry, other data), the record keeps the new data and
\* takes the extension.  (The record's "updated_at" tells that its last
\* writer was an update.)
C26_NoLostUpdate ==
    [][ (issued' = issued /\ now = 0) =>
          \A r \in inflight :
            LET key == _make_key(r.user.id, r.memory_id) IN
            ( /\ r.op = "update" /\ r.pc = "setex"
              /\ key \in DOMAIN db
              /\ "updated_at" \in DOMAIN db[key].value
              /\ UpdateSetex(r) )
            => /\ ( /\ ~IsNone(r.data) /\ IsNone(r.extra_time)
                    /\ db[key].value.data = Get(r.value).data
                    /\ db[key].expireat > r.expireat )
                  => /\ key \in DOMAIN db'
                     /\ db'[key].value.data = Get(r.data)
                     /\ db'[key].expireat = db[key].expireat
               /\ ( /\ IsNone(r.data) /\ ~IsNone(r.extra_time)
                    /\ db[key].value.data # Get(r.value).data
                    /\ db[key].expireat = r.expireat )
                  => /\ key \in DOMAIN db'
                     /\ db'[key].value.data = db[key].value.data
                     /\ db'[key].expireat =
                            r.expireat + Get(r.extra_time) * 1000
      ]_vars

\* C28: create uses a fresh memory_id.  Every POST /stash answered 200 wrote
\* under a key that held no live record of that user when the request came.
C28_CreateUsesFreshId ==
    [][ ( /\ issued' # issued
          /\ response'.rid = issued'
          /\ response'.op = "stash"
          /\ response'.status = 200 )
        => _make_key(response'.user, response'.memory_id) \notin DOMAIN db
      ]_vars

\* C29: operations on different (user_id, memory_id) pairs are independent.
\* Whenever a step of a request changes what a pair (u, m) of a known user
\* and a memory id holds (its presence, its data or its expiry), the request
\* that took the step is a create, update or delete on that very pair.
C29_PairsIndependent ==
    [][ now' = now =>
          \A u \in DOMAIN users, m \in TokenIds \cup ColonPathIds :
            LET k == _make_key(u, m) IN
            ( \/ (k \in DOMAIN db) # (k \in DOMAIN db')
              \/ k \in DOMAIN db /\ db'[k] # db[k] )
            => \/ /\ issued' = issued
                  /\ \E r \in inflight \ inflight' :
                        r.user.id = u /\ r.memory_id = m
               \/ /\ issued' # issued
                  /\ response'.rid = issued'
                  /\ response'.op \in {"stash", "delete"}
                  /\ response'.user = u
                  /\ response'.memory_id = m
      ]_vars

\* C30: the tier ceiling holds at rest.  In every reachable state in which no
\* update is in flight, each live record's remaining TTL is at most the
\* maximum TTL of its owner's tier, however the extensions before it
\* interleaved.
C30_CeilingAtRest ==
    (\A r \in inflight : r.op # "update") =>
        \A u \in UserIds, m \in PathIds :
            LET k == _make_key(u, m) IN
            k \in DOMAIN db => redis_ttl(k) <= TableMaxTtl(users[u])

\* C30 witness: no update is in flight, the last response is the 200 of an
\* update whose extension went over the ceiling, and the record is live with
\* exactly the ceiling as its remaining TTL
C30_Witness ==
    /\ \A r \in inflight : r.op # "update"
    /\ response.op = "update" /\ response.status = 200
    /\ response.expires_at > now + TableMaxTtl(users[response.user]) * 1000
    /\ LET k == _make_key(response.user, response.memory_id) IN
       /\ k \in DOMAIN db
       /\ redis_ttl(k) = TableMaxTtl(users[response.user])

\* C31: update never asks for a set-with-expiry with a TTL below 1.  Every
\* SETEX step of an update that passed the existence checks (value present,
\* TTL read not negative) writes a TTL of at least 1 second, and the update
\* is not answered with a store error.
C31_UpdateTtlPositive ==
    [][ issued' = issued =>
          \A r \in inflight :
            ( /\ r.op = "update" /\ r.pc = "setex"
              /\ UpdateSetex(r) )
            => /\ update_new_ttl(r.current_ttl, r.extra_time) >= 1
               /\ response'.rid = r.rid => response'.status = 200
      ]_vars

\* C32: in the response of an update, expires_at agrees with ttl_remaining.
\* Every 200 an update answers carries expires_at equal to the time of the
\* response plus the ttl_remaining it reports, also when the extension was
\* cut back to the maximum TTL of the tier.
C32_UpdateExpiresAtConsistent ==
    [][ ( /\ response' # response
          /\ response'.op = "update"
          /\ response'.status = 200 )
        => response'.expires_at = now' + response'.ttl_remaining * 1000
      ]_vars

\* C33: recall is read-only and update changes only what was supplied.  No
\* step of a recall changes any record; and for a key that still holds the
\* very record the update read (nothing has written it since), the SETEX of a
\* data-only update leaves the key's expiry instant as it was, and the SETEX
\* of a TTL-only update leaves the key's data as it was.
C33_OnlyWhatWasSupplied ==
    [][ /\ issued' # issued =>
            ((\E h \in RequestHeaders, m \in PathIds : RecallGet(h, m)) => db' = db)
        /\ issued' = issued =>
            \A r \in inflight :
              LET key == _make_key(r.user.id, r.memory_id) IN
              /\ RecallTtl(r) => db' = db
              /\ ( /\ r.op = "update" /\ r.pc = "setex"
                   /\ key \in DOMAIN db
                   /\ db[key].value = Get(r.value)
                   /\ db[key].expireat = r.expireat
                   /\ UpdateSetex(r)
                   /\ key \in DOMAIN db' )
                 => /\ IsNone(r.extra_time) => db'[key].expireat = db[key].expireat
                    /\ IsNone(r.data) => db'[key].value.data = db[key].value.data
      ]_vars

====
